---- MODULE Spec2Model ----
(***************************************************************************)
(* A model of the caching and change-detection layer of                    *)
(* factor-impact-intelligence: DataCacheManager (cache_manager.py) and     *)
(* SentinelEngine (sentinel_engine.py).                                    *)
(*                                                                         *)
(* Time is counted in seconds of UTC.  SQLite's CURRENT_TIMESTAMP and      *)
(* datetime('now') read UTC; Python's datetime.now() reads the local wall  *)
(* clock, which is UTC shifted by the zone offset tz of the host.          *)
(* Money is counted in thousandths of a dollar, scores in hundredths.      *)
(*                                                                         *)
(* SQLite compares timestamps as text.  datetime('now') is written to the  *)
(* second; a Python datetime is written with its microseconds unless they  *)
(* are zero, and then sorts after the same second written without them.    *)
(* A timestamp Python wrote is its second and whether microseconds follow. *)
(***************************************************************************)
EXTENDS Integers, Sequences, FiniteSets, TLC

VARIABLES
    now,          \* the UTC clock, in seconds
    tz,           \* the host's zone offset: datetime.now() = now + tz
    cache,        \* table cache: a set of rows, at most one per key
    api_costs,    \* table api_costs: the rows in insertion order
    last,         \* the last call of the cache manager and what it returned
    ops,          \* calls of the cache manager made so far
    ticks,        \* clock advances so far
    hits,         \* for the key of every row: the gets that returned the row's
                  \* payload since set last wrote it
    analysis_history,  \* table analysis_history: the rows in order of their id
    change_log,        \* table change_log: the rows in order of their id
    learned_insights,  \* table learned_insights: the rows in order of their id
    relationships,     \* table relationships: a set of rows, one per primary key
    learned,           \* the last learn_from_analysis call: its arguments and what
                       \* its change detection read and returned
    asked,             \* the last get_historical_trend or recommend_refresh call
                       \* and what it returned
    keyed,             \* two calls of _generate_key: their arguments and their keys
    action_queue,      \* table action_queue: the rows in order of their id
    callers,           \* the callers of execute_pending_actions: where each is in
                       \* its call and the rows it has selected
    scheduler          \* an AutonomousScheduler: its fields, the jobs it has
                       \* registered and the loop threads it has started

cacheVars == <<cache, api_costs, last, ops, ticks, hits>>
sentinelVars ==
    <<analysis_history, change_log, learned_insights, relationships, learned, asked>>
agentVars == <<action_queue, callers, scheduler>>
vars == <<now, tz, cache, api_costs, last, ops, ticks, hits,
          analysis_history, change_log, learned_insights, relationships, learned,
          asked, keyed, action_queue, callers, scheduler>>

(***************************** bounds **************************************)
MaxOps == 3
MaxTicks == 1
MaxLearn == 3
\* rows of action_queue, where callers compete and where a backlog builds up
MaxActions == 2
MaxBacklog == 11
\* calls of AutonomousScheduler.start, and job runs of one loop thread
MaxStarts == 2
MaxRuns == 1

(************************** Python values **********************************)
\* Python's None, where a string is expected (a ticker, a data type).
None == "<None>"

\* bool(s) of an optional string: None and '' are falsy.
Truthy(s) == s # None /\ s # ""

\* str.upper() on the letters the model's tickers use.
Upper(s) ==
    CASE s = "aapl" -> "AAPL"
      [] s = "a"    -> "A"
      [] s = "a:1"  -> "A:1"
      [] OTHER      -> s

\* A payload is a one-entry Python dict {key: val}; ktype is the type of its key.
\* Python's None (a miss) is the value MISS.
MISS == [ktype |-> "none", key |-> "", val |-> 0]

\* json.dumps: a JSON object's keys are strings, so an int key is written as
\* its decimal text.
json_dumps(data) == [key |-> data.key, val |-> data.val]

\* A text in the data column that is not JSON, as a writer other than set may
\* leave it there.
CorruptText == [key |-> "{not json", val |-> 0]

\* json.loads raising json.JSONDecodeError, as the outcome of the call that
\* made it.
JSONDecodeError == [ktype |-> "JSONDecodeError", key |-> "", val |-> 0]

\* json.loads: every key of a JSON object is read back as a str; a text that
\* is not JSON raises.
json_loads(text) ==
    IF text = CorruptText THEN JSONDecodeError
    ELSE [ktype |-> "str", key |-> text.key, val |-> text.val]

(************************** freshness rules ********************************)
HOUR == 3600

FRESHNESS_RULES ==
    [ stock_price_current |-> 0, breaking_news |-> 0, earnings_day |-> 0,
      fed_rate |-> 24, inflation |-> 24, treasury_yield |-> 24,
      stock_fundamentals |-> 24,
      macro_trends |-> 168, regulatory_updates |-> 168,
      industry_dynamics |-> 168, esg_analysis |-> 168,
      financial_statements |-> 2160, supplier_relationships |-> 2160,
      customer_relationships |-> 2160, competitive_landscape |-> 2160,
      company_profile |-> 8760, business_model |-> 8760,
      industry_classification |-> 8760 ]

\* A variant of max_age_hours, FRESHNESS_RULES.get(data_type) or 24, which takes
\* a TTL of 0 for a missing one.
MutMaxAgeZeroIsMissing(data_type) ==
    IF data_type \in DOMAIN FRESHNESS_RULES /\ FRESHNESS_RULES[data_type] # 0
    THEN FRESHNESS_RULES[data_type] ELSE 24

\* FRESHNESS_RULES.get(data_type, 24)
max_age_hours(data_type) ==
    IF data_type \in DOMAIN FRESHNESS_RULES THEN FRESHNESS_RULES[data_type] ELSE 24

\* _estimate_cost, in thousandths of a dollar
_estimate_cost(data_type) ==
    CASE data_type \in {"fed_rate", "inflation", "treasury_yield"} -> 1
      [] data_type \in {"supplier_relationships", "customer_relationships"} -> 170
      [] data_type = "macro_trends" -> 60
      [] data_type = "financial_statements" -> 20
      [] OTHER -> 10

(************************** key generation *********************************)
\* The names a keyword argument can have, in the order sorted() puts them.
KwNames == <<"A", "p", "q">>

\* A keyword argument is [k |-> name, v |-> [t |-> type, s |-> str(value)]];
\* kwargs is the sequence of them in the order the caller passed them.
\* sorted(kwargs.items()): the items in the order of their names.
SortedItems(kwargs) ==
    LET pick(n) == SelectSeq(kwargs, LAMBDA it : it.k = KwNames[n])
    IN  pick(1) \o pick(2) \o pick(3)

\* "|".join(parts)
RECURSIVE Join(_)
Join(parts) ==
    IF Len(parts) = 0 THEN ""
    ELSE IF Len(parts) = 1 THEN parts[1]
    ELSE parts[1] \o "|" \o Join(Tail(parts))

\* key_parts of _generate_key
key_parts(data_type, ticker, kwargs) ==
    <<data_type>>
    \o (IF Truthy(ticker) THEN <<Upper(ticker)>> ELSE <<>>)
    \o [i \in 1..Len(kwargs) |->
            SortedItems(kwargs)[i].k \o ":" \o SortedItems(kwargs)[i].v.s]

\* _generate_key.  The MD5 digest of the key string is taken as collision-free:
\* the key is the key string itself.
_generate_key(data_type, ticker, kwargs) ==
    Join(key_parts(data_type, ticker, kwargs))

\* The arguments of one call of _generate_key, and the call's result.
KeyArgs(data_type, ticker, kwargs) ==
    [data_type |-> data_type, ticker |-> ticker, kwargs |-> kwargs]

KeyOf(args) == _generate_key(args.data_type, args.ticker, args.kwargs)

NoKeys ==
    [ a |-> KeyArgs(None, None, <<>>), b |-> KeyArgs(None, None, <<>>),
      ka |-> "", kb |-> "" ]

(************************** the cache table ********************************)
\* datetime.now(): the local wall clock
LocalNow == now + tz

\* CURRENT_TIMESTAMP, datetime('now'): UTC
UtcNow == now

HasRow(key) == \E r \in cache : r.key = key
RowOf(key) == CHOOSE r \in cache : r.key = key

\* should_refresh(data_type, ticker): the key is built without the kwargs
should_refresh(data_type, ticker) ==
    LET key == _generate_key(data_type, ticker, <<>>)
    IN  IF max_age_hours(data_type) = 0 THEN TRUE
        ELSE IF ~HasRow(key) THEN TRUE
        ELSE (LocalNow - RowOf(key).created_at) >= max_age_hours(data_type) * HOUR

\* expires_at > datetime('now'), as text: a later second, or the same second
\* followed by microseconds.
ExpiresAfterNow(r) ==
    r.expires_at > UtcNow \/ (r.expires_at = UtcNow /\ r.expires_us)

\* expires_at <= datetime('now')
ExpiresAtOrBeforeNow(r) == ~ExpiresAfterNow(r)

\* expires_at < datetime('now'): an earlier second.
ExpiresBeforeNow(r) == r.expires_at < UtcNow

\* The SELECT of get: the row of the key, if its expires_at is after datetime('now')
SelectFresh(key) == {r \in cache : r.key = key /\ ExpiresAfterNow(r)}

\* What get returns: None (MISS) when should_refresh says so or the SELECT finds
\* no row, else json.loads of the row's data.
get_result(data_type, ticker, kwargs) ==
    IF should_refresh(data_type, ticker)
       \/ SelectFresh(_generate_key(data_type, ticker, kwargs)) = {}
    THEN MISS
    ELSE json_loads(RowOf(_generate_key(data_type, ticker, kwargs)).data)

\* A variant of NewRow, expires_at without the timedelta.
MutNewRowNoTtl(data_type, data, ticker, cost, kwargs, us) ==
    [ key          |-> _generate_key(data_type, ticker, kwargs),
      data_type    |-> data_type,
      ticker       |-> ticker,
      data         |-> json_dumps(data),
      created_at   |-> UtcNow,
      accessed_at  |-> UtcNow,
      expires_at   |-> LocalNow,
      expires_us   |-> us,
      access_count |-> 0,
      cost_saved   |-> cost ]

\* The row INSERT OR REPLACE writes in set: created_at, accessed_at and
\* access_count take the column defaults.  us tells whether datetime.now() had
\* microseconds when expires_at was computed.
NewRow(data_type, data, ticker, cost, kwargs, us) ==
    [ key          |-> _generate_key(data_type, ticker, kwargs),
      data_type    |-> data_type,
      ticker       |-> ticker,
      data         |-> json_dumps(data),
      created_at   |-> UtcNow,
      accessed_at  |-> UtcNow,
      expires_at   |-> LocalNow + max_age_hours(data_type) * HOUR,
      expires_us   |-> us,
      access_count |-> 0,
      cost_saved   |-> cost ]

\* The rows force_refresh deletes
ForceRefreshDeletes(data_type, ticker) ==
    IF Truthy(data_type) /\ Truthy(ticker)
    THEN {r \in cache : r.key = _generate_key(data_type, ticker, <<>>)}
    ELSE IF Truthy(data_type)
    THEN {r \in cache : r.data_type = data_type}
    ELSE IF Truthy(ticker)
    THEN {r \in cache : r.ticker # None /\ r.ticker = ticker}
    ELSE {}

\* A variant of HitRow, the UPDATE without access_count = access_count + 1.
MutHitRowNoCount(r) == [r EXCEPT !.accessed_at = UtcNow]

\* The UPDATE of get on the row it read
HitRow(r) == [r EXCEPT !.accessed_at = UtcNow, !.access_count = @ + 1]

\* The rows clear_stale deletes: DELETE FROM cache WHERE expires_at < datetime('now')
ClearStaleDeletes == {r \in cache : ExpiresBeforeNow(r)}

\* A variant of StaleRows, counting with expires_at < datetime('now').
MutStaleRowsBefore(rows) == {r \in rows : ExpiresBeforeNow(r)}

\* The rows get_stats counts as fresh and as stale
FreshRows(rows) == {r \in rows : ExpiresAfterNow(r)}
StaleRows(rows) == {r \in rows : ExpiresAtOrBeforeNow(r)}

\* SUM(cost_saved) over rows
RECURSIVE SumCostSaved(_)
SumCostSaved(rows) ==
    IF rows = {} THEN 0
    ELSE LET r == CHOOSE x \in rows : TRUE
         IN  r.cost_saved + SumCostSaved(rows \ {r})

\* round(a / b) of two naturals, b > 0, to the nearest whole, a tie to the even one
RoundDiv(a, b) ==
    LET q == a \div b
        twice == 2 * (a % b)
    IN  IF twice > b \/ (twice = b /\ q % 2 = 1) THEN q + 1 ELSE q

DAY == 24 * HOUR

\* get_stats.  cost_saved_total is round(sum, 2), here in thousandths of a
\* dollar; hit_rate is round(fresh / total * 100, 1), here in tenths of a percent.
get_stats ==
    [ total_items      |-> Cardinality(cache),
      fresh_items      |-> Cardinality(FreshRows(cache)),
      stale_items      |-> Cardinality(StaleRows(cache)),
      cost_saved_total |-> 10 * RoundDiv(SumCostSaved(cache), 10),
      cache_hits_today |-> Cardinality({i \in 1..Len(api_costs) :
                                /\ api_costs[i].cache_hit = 1
                                /\ api_costs[i].timestamp \div DAY = UtcNow \div DAY}),
      hit_rate         |-> IF Cardinality(cache) > 0
                           THEN RoundDiv(Cardinality(FreshRows(cache)) * 1000,
                                         Cardinality(cache))
                           ELSE 0 ]

\* hits after set wrote the row of key, and after rows were deleted
HitsAfterSet(key) == [k \in DOMAIN hits \cup {key} |-> IF k = key THEN 0 ELSE hits[k]]
HitsOfRows(rows) == [k \in {r.key : r \in rows} |-> hits[k]]

(************************** inputs *****************************************)
\* Data types: one with TTL 0, one listed with TTL 24 h, one the table lacks.
Kinds == {"stock_price_current", "fed_rate", "supplier_list"}
PlainTickers == {None, "aapl"}
CaseTickers == {None, "aapl", "AAPL"}
One == [t |-> "int", s |-> "1"]
NoKwargs == {<<>>}
KwargChoices == {<<>>, <<[k |-> "q", v |-> One]>>}
\* {"rev": 1000} and {1: 100}
Payloads == { [ktype |-> "str", key |-> "rev", val |-> 1000],
              [ktype |-> "int", key |-> "1", val |-> 100] }
Costs == {50}
TZOffsets == {0 - HOUR, 0, HOUR}
TickSteps == {23 * HOUR, 24 * HOUR}
\* Whether datetime.now() has microseconds: nearly always, but not always.
WithMicros == {TRUE}
AnyMicros == {FALSE, TRUE}

Call(op, data_type, ticker, kwargs, data, ret, flag) ==
    [op |-> op, data_type |-> data_type, ticker |-> ticker, kwargs |-> kwargs,
     data |-> data, ret |-> ret, flag |-> flag]

NoCall == Call("none", None, None, <<>>, MISS, MISS, FALSE)

(************************** the sentinel ***********************************)
\* An optional number: <<>> is None (SQL NULL), <<x>> is the number x.
Absent == <<>>
Abs(x) == IF x < 0 THEN 0 - x ELSE x

\* One module's entry of the results dict: whether the key is in the dict, its
\* 'success', its 'score' and its list of entities ('suppliers' or 'customers').
\* A score of Absent is a dict without the key 'score', unless score_none says
\* that the key is there and holds None.
NoModule ==
    [in |-> FALSE, success |-> FALSE, score |-> Absent, score_none |-> FALSE,
     entities |-> <<>>]
Module(score) ==
    [in |-> TRUE, success |-> TRUE, score |-> score, score_none |-> FALSE,
     entities |-> <<>>]

\* {'success': True, 'score': None}
NoneScoreModule == [Module(Absent) EXCEPT !.score_none = TRUE]

\* What the app puts in the results for a module that failed:
\* {'success': False, 'error': ...}
FailedModule ==
    [in |-> TRUE, success |-> FALSE, score |-> Absent, score_none |-> FALSE,
     entities |-> <<>>]

\* An entity of a module's list is a dict that may lack 'name' and 'score':
\* entity.get('name', 'Unknown') and entity.get('score', 0)
Entity(name, score) == [name |-> name, score |-> score, score_none |-> FALSE]

\* {'name': name, 'score': None}
NoneScoreEntity(name) == [Entity(name, Absent) EXCEPT !.score_none = TRUE]
EntityName(e) == IF e.name = Absent THEN "Unknown" ELSE e.name[1]
EntityScore(e) == IF e.score = Absent THEN 0 ELSE e.score[1]

\* results.get(name, {}).get('score')
ScoreOf(module) == IF module.in THEN module.score ELSE Absent

\* The score columns of analysis_history, in the order of score_fields.
ScoreFields == <<"combined_score", "monetary_score", "company_score",
                 "supplier_score", "customer_score", "macro_score">>

\* field.replace('_score', '')
ModuleOfField(field) ==
    CASE field = "combined_score" -> "combined"
      [] field = "monetary_score" -> "monetary"
      [] field = "company_score"  -> "company"
      [] field = "supplier_score" -> "supplier"
      [] field = "customer_score" -> "customer"
      [] field = "macro_score"    -> "macro"

\* The six scores learn_from_analysis and _detect_changes read from results.
ScoresOf(results) ==
    [ combined_score |-> results.combined_score,
      monetary_score |-> ScoreOf(results.monetary),
      company_score  |-> ScoreOf(results.company),
      supplier_score |-> ScoreOf(results.suppliers),
      customer_score |-> ScoreOf(results.customers),
      macro_score    |-> ScoreOf(results.macro) ]

\* A variant of HistoryRow that files the row under no ticker.
MutHistoryRowNoTicker(ticker, results, date) ==
    [ticker |-> None, analysis_date |-> date, scores |-> ScoresOf(results)]

\* The row learn_from_analysis inserts; analysis_date is CURRENT_TIMESTAMP.
HistoryRow(ticker, results, date) ==
    [ticker |-> ticker, analysis_date |-> date, scores |-> ScoresOf(results)]

ChangeThreshold == 50
HighThreshold == 150

\* A variant of PreviousCandidates, the SELECT without WHERE ticker = ?.
MutPreviousOfAnyTicker(history, ticker) ==
    LET mine == 1..Len(history)
        newer(i) == {j \in mine : history[j].analysis_date > history[i].analysis_date}
        notOlder(i) == {j \in mine : history[j].analysis_date >= history[i].analysis_date}
    IN  {i \in mine : Cardinality(newer(i)) <= 1 /\ Cardinality(notOlder(i)) >= 2}

\* The ids of the rows SELECT ... WHERE ticker = ? ORDER BY analysis_date DESC
\* LIMIT 1 OFFSET 1 can return: the second row of the ticker's rows in
\* descending order of analysis_date.  Rows of the same second are in no
\* defined order, so each of them can be the second.
PreviousCandidates(history, ticker) ==
    LET mine == {i \in 1..Len(history) : history[i].ticker = ticker}
        newer(i) == {j \in mine : history[j].analysis_date > history[i].analysis_date}
        notOlder(i) == {j \in mine : history[j].analysis_date >= history[i].analysis_date}
    IN  {i \in mine : Cardinality(newer(i)) <= 1 /\ Cardinality(notOlder(i)) >= 2}

\* The loop of _detect_changes over score_fields: previous is the row read,
\* current the scores of the results.
CompareScores(ticker, previous, current, date) ==
    LET event(field) ==
            LET old == previous[field]
                new == current[field]
            IN  IF old # Absent /\ new # Absent /\ Abs(new[1] - old[1]) >= ChangeThreshold
                THEN << [ ticker |-> ticker, module |-> ModuleOfField(field),
                          field |-> field, old_value |-> old[1], new_value |-> new[1],
                          magnitude |-> Abs(new[1] - old[1]),
                          significance |-> IF Abs(new[1] - old[1]) >= HighThreshold
                                           THEN "HIGH" ELSE "MEDIUM",
                          change_date |-> date ] >>
                ELSE <<>>
    IN  event(ScoreFields[1]) \o event(ScoreFields[2]) \o event(ScoreFields[3])
        \o event(ScoreFields[4]) \o event(ScoreFields[5]) \o event(ScoreFields[6])

\* _detect_changes. It reads analysis_history over a connection of its own, so it
\* sees the committed rows: the table as it was before learn_from_analysis began,
\* without the row that call has inserted and not yet committed.  previous is
\* the row it read, <<>> for none.
_detect_changes(history, ticker, results, previous, date) ==
    IF previous = <<>> THEN <<>>
    ELSE CompareScores(ticker, history[previous[1]].scores, ScoresOf(results), date)

\* Whether _extract_insights raises: comparing a score of None with a number
\* is a TypeError (lines 231, 240, 249).
ExtractInsightsRaises(results) ==
    \E m \in {results.suppliers, results.customers, results.monetary} :
        m.in /\ m.score_none

\* _extract_insights; confidence in hundredths
_extract_insights(ticker, results, date) ==
    LET insight(type, score, confidence) ==
            [ ticker |-> ticker, insight_type |-> type, score |-> score,
              confidence |-> confidence, learned_date |-> date,
              validation_count |-> 0, still_valid |-> TRUE ]
        sup == ScoreOf(results.suppliers)
        cus == ScoreOf(results.customers)
        mon == ScoreOf(results.monetary)
    IN  (IF sup # Absent /\ sup[1] < 600
         THEN <<insight("supply_chain_risk", sup[1], 80)>> ELSE <<>>)
        \o (IF cus # Absent /\ cus[1] >= 800
            THEN <<insight("demand_strength", cus[1], 90)>> ELSE <<>>)
        \o (IF mon # Absent /\ mon[1] < 500
            THEN <<insight("monetary_headwind", mon[1], 70)>> ELSE <<>>)

\* A variant of _update_relationships, INSERT without OR REPLACE and without
\* the primary key.
RECURSIVE MutInsertRelationships(_, _, _, _, _)
MutInsertRelationships(rels, ticker, entities, rel_type, date) ==
    IF entities = <<>> THEN rels
    ELSE MutInsertRelationships(
             rels \cup {[ ticker |-> ticker, related_entity |-> EntityName(Head(entities)),
                          relationship_type |-> rel_type,
                          importance_score |-> Abs(EntityScore(Head(entities))),
                          discovered_date |-> date, last_updated |-> date,
                          still_active |-> TRUE ]},
             ticker, Tail(entities), rel_type, date)

\* _update_relationships: INSERT OR REPLACE of one row per entity; the columns
\* the statement does not name take their defaults.
RECURSIVE _update_relationships(_, _, _, _, _)
_update_relationships(rels, ticker, entities, rel_type, date) ==
    IF entities = <<>> \/ Head(entities).score_none THEN rels
    ELSE LET e == Head(entities)
             row == [ ticker |-> ticker, related_entity |-> EntityName(e),
                      relationship_type |-> rel_type,
                      importance_score |-> Abs(EntityScore(e)),
                      discovered_date |-> date, last_updated |-> date,
                      still_active |-> TRUE ]
             kept == {r \in rels : ~(r.ticker = ticker /\ r.related_entity = EntityName(e)
                                      /\ r.relationship_type = rel_type)}
         IN  _update_relationships(kept \cup {row}, ticker, Tail(entities), rel_type, date)

\* Whether _update_relationships raises: abs() of a score of None is a
\* TypeError (line 270); the rows of the entities before it are written by then.
UpdateRelationshipsRaises(entities) ==
    \E i \in 1..Len(entities) : entities[i].score_none

NoResults ==
    [ combined_score |-> Absent, monetary |-> NoModule, company |-> NoModule,
      suppliers |-> NoModule, customers |-> NoModule, macro |-> NoModule ]

\* calls counts the learn_from_analysis calls that returned and failures those
\* that raised; raised is the exception of the last call ("" if it returned),
\* and open_tx tells that the connection of a call that raised is still open,
\* with its transaction, because nothing has disposed of it yet.
NoLearn ==
    [ticker |-> None, results |-> NoResults, previous |-> <<>>, changes |-> <<>>,
     calls |-> 0, failures |-> 0, raised |-> "", open_tx |-> FALSE]

\* The exception learn_from_analysis raises on these results, "" if none: the
\* first INSERT fails while another connection holds the write lock; a score of
\* None fails in _extract_insights or in _update_relationships.
LearnRaises(results, locked) ==
    IF locked THEN "OperationalError"
    ELSE IF ExtractInsightsRaises(results) THEN "TypeError"
    ELSE IF results.suppliers.in /\ UpdateRelationshipsRaises(results.suppliers.entities)
    THEN "TypeError"
    ELSE IF results.customers.in /\ UpdateRelationshipsRaises(results.customers.entities)
    THEN "TypeError"
    ELSE ""

\* A variant of Committed: every statement is committed as it is executed.
MutCommittedEachStatement(before, written, raised) == written

\* What a table holds once learn_from_analysis has left: all statements run on
\* one connection and conn.commit() (line 173) is its last statement but one,
\* so a call that raised has committed nothing, and its transaction is rolled
\* back when the connection is disposed of.
Committed(before, written, raised) == IF raised # "" THEN before ELSE written

\* A Python exception that leaves the call, instead of a return value.
Raised(exc) == [raised |-> exc]

\* The ids of the rows get_historical_trend selects: those of the ticker with
\* analysis_date > cutoff, where cutoff = datetime.now() - timedelta(days) is
\* local time while analysis_date is UTC.  As text, an analysis_date of the
\* cutoff's own second is not after it, with microseconds or without.
TrendRows(history, ticker, days) ==
    {i \in 1..Len(history) :
        /\ history[i].ticker = ticker
        /\ history[i].analysis_date > LocalNow - days * DAY}

\* ORDER BY analysis_date ASC: the rows that can come first and last.  Rows of
\* the same second are in no defined order.
FirstCandidates(history, rows) ==
    {i \in rows : \A j \in rows : history[j].analysis_date >= history[i].analysis_date}
LastCandidates(history, rows) ==
    {i \in rows : \A j \in rows : history[j].analysis_date <= history[i].analysis_date}

TrendThreshold == 100

\* A variant of TrendOf that takes a difference of exactly 1.0 for a trend.
MutTrendOfInclusive(first_score, last_score) ==
    IF last_score >= first_score + TrendThreshold THEN "improving"
    ELSE IF last_score <= first_score - TrendThreshold THEN "declining"
    ELSE "stable"

\* The trend of two combined scores
TrendOf(first_score, last_score) ==
    IF last_score > first_score + TrendThreshold THEN "improving"
    ELSE IF last_score < first_score - TrendThreshold THEN "declining"
    ELSE "stable"

\* get_historical_trend, when the ordered rows begin with first_row and end
\* with last_row.  A combined_score of None in either makes the comparison raise
\* TypeError.
get_historical_trend(history, ticker, days, first_row, last_row) ==
    LET rows == TrendRows(history, ticker, days)
    IN  IF rows = {} THEN [trend |-> "no_data", history |-> {}]
        ELSE IF Cardinality(rows) < 2
        THEN [trend |-> "insufficient_data", history |-> rows]
        ELSE IF history[first_row].scores.combined_score = Absent
                \/ history[last_row].scores.combined_score = Absent
        THEN Raised("TypeError")
        ELSE [trend |-> TrendOf(history[first_row].scores.combined_score[1],
                                history[last_row].scores.combined_score[1]),
              history |-> rows]

\* days_since of recommend_refresh: (datetime.now() - last_analysis).days, local
\* time less the UTC analysis_date of the ticker's latest row, in whole days
\* rounded down.
days_since(history, ticker) ==
    LET mine == {i \in 1..Len(history) : history[i].ticker = ticker}
        latest == CHOOSE i \in mine :
                      \A j \in mine : history[j].analysis_date <= history[i].analysis_date
    IN  (LocalNow - history[latest].analysis_date) \div DAY

\* recommend_refresh: the modules of each bucket
recommend_refresh(history, ticker) ==
    IF \A i \in 1..Len(history) : history[i].ticker # ticker
    THEN [urgent |-> <<"all">>, recommended |-> <<>>, optional |-> <<>>]
    ELSE [ urgent      |-> IF days_since(history, ticker) > 90
                           THEN <<"company_financials", "suppliers", "customers">>
                           ELSE <<>>,
           recommended |-> IF days_since(history, ticker) > 7
                           THEN <<"macro_factors">> ELSE <<>>,
           optional    |-> IF days_since(history, ticker) > 1
                           THEN <<"monetary">> ELSE <<>> ]

Ask(op, ticker, days, ret) == [op |-> op, ticker |-> ticker, days |-> days, ret |-> ret]
NoAsk == Ask("none", None, 0, <<>>)

(************************** the action queue *******************************)
\* LIMIT 10 of the SELECT of execute_pending_actions
SelectLimit == 10

\* The timedelta schedule_action adds to datetime.now()
ScheduleDelay(scheduled_for) ==
    CASE scheduled_for = "1h"     -> HOUR
      [] scheduled_for = "24h"    -> DAY
      [] scheduled_for = "weekly" -> 7 * DAY
      [] OTHER                    -> 0

\* The row schedule_action inserts: scheduled_for is datetime.now() plus the
\* delay, a local time, with microseconds if us; created_at and status take the
\* column defaults.  result is "" while the column is NULL.  Two fields are
\* not columns: asked_for, the instant the action was scheduled for (the
\* instant of the call plus the delay), and runs, the number of times
\* _execute_action has run for the row.
NewAction(id, action_type, ticker, priority, scheduled_for, us) ==
    [ id            |-> id,
      action_type   |-> action_type,
      ticker        |-> ticker,
      priority      |-> priority,
      created_at    |-> UtcNow,
      scheduled_for |-> LocalNow + ScheduleDelay(scheduled_for),
      scheduled_us  |-> us,
      status        |-> "pending",
      result        |-> "",
      completed_at  |-> Absent,
      asked_for     |-> now + ScheduleDelay(scheduled_for),
      runs          |-> 0 ]

\* WHERE status = 'pending' AND scheduled_for <= datetime('now'), the timestamps
\* compared as text: an earlier second, or the same second without microseconds.
IsDue(r) ==
    /\ r.status = "pending"
    /\ (r.scheduled_for < UtcNow \/ (r.scheduled_for = UtcNow /\ ~r.scheduled_us))

\* ORDER BY priority DESC, scheduled_for ASC; rows that tie come in the order
\* of their id.
ComesBefore(a, b) ==
    \/ a.priority > b.priority
    \/ /\ a.priority = b.priority
       /\ \/ a.scheduled_for < b.scheduled_for
          \/ /\ a.scheduled_for = b.scheduled_for
             /\ \/ ~a.scheduled_us /\ b.scheduled_us
                \/ a.scheduled_us = b.scheduled_us /\ a.id < b.id

RECURSIVE Ordered(_)
Ordered(rows) ==
    IF rows = {} THEN <<>>
    ELSE LET first == CHOOSE a \in rows : \A b \in rows \ {a} : ComesBefore(a, b)
         IN  <<first.id>> \o Ordered(rows \ {first})

\* The ids the SELECT of execute_pending_actions returns, in order
SelectPending(queue) ==
    LET ids == Ordered({queue[i] : i \in {j \in 1..Len(queue) : IsDue(queue[j])}})
    IN  SubSeq(ids, 1, IF Len(ids) < SelectLimit THEN Len(ids) ELSE SelectLimit)

\* _execute_action: 'success' of the result it returns; ok tells whether the
\* external model answered the investigation of an alert.
_execute_action(action_type, ok) ==
    CASE action_type \in {"analyze_ticker", "refresh_data", "monitor_changes"} -> "success"
      [] action_type = "investigate_alert" -> IF ok THEN "success" ELSE "failure"
      [] OTHER -> "failure"

\* The callers of execute_pending_actions: threads of the process
Callers == {1, 2}

\* A caller is outside execute_pending_actions ("idle") or in its loop over the
\* rows it selected ("loop"): batch holds the ids still to execute.  due holds
\* the ids of the rows that were due when the call made its SELECT.
IdleCaller == [pc |-> "idle", batch |-> <<>>, due |-> {}]

(************************** the scheduler **********************************)
\* AutonomousScheduler.__init__: running = False, thread = None (0).  jobs is
\* the number of jobs registered with the schedule module, cycles the number of
\* monitoring cycles start has run itself, starts the number of start calls;
\* threads holds, for every loop thread start has created, where it is in
\* _run_scheduler ("test", "run_pending", "sleep", or "done" once it has
\* returned) and how many times it has run a job.
NewScheduler ==
    [running |-> FALSE, thread |-> 0, jobs |-> 0, cycles |-> 0, starts |-> 0,
     threads |-> <<>>]

\* A variant of LoopContinues: the loop never reads the flag.
MutLoopForever(running) == TRUE

\* while self.running
LoopContinues(running) == running

(************************** operations *************************************)
Init ==
    /\ now = 0
    /\ tz \in TZOffsets
    /\ cache = {}
    /\ api_costs = <<>>
    /\ last = NoCall
    /\ ops = 0
    /\ ticks = 0
    /\ hits = <<>>
    /\ analysis_history = <<>>
    /\ change_log = <<>>
    /\ learned_insights = <<>>
    /\ relationships = {}
    /\ learned = NoLearn
    /\ asked = NoAsk
    /\ keyed = NoKeys
    /\ action_queue = <<>>
    /\ callers = [c \in Callers |-> IdleCaller]
    /\ scheduler = NewScheduler

\* DataCacheManager.set
Set(data_type, data, ticker, cost, kwargs, us) ==
    /\ ops < MaxOps
    /\ cache' = {r \in cache : r.key # _generate_key(data_type, ticker, kwargs)}
                 \cup {NewRow(data_type, data, ticker, cost, kwargs, us)}
    /\ hits' = HitsAfterSet(_generate_key(data_type, ticker, kwargs))
    /\ last' = Call("set", data_type, ticker, kwargs, data, MISS, FALSE)
    /\ ops' = ops + 1
    /\ UNCHANGED <<now, tz, api_costs, ticks, sentinelVars, keyed, agentVars>>

\* DataCacheManager.get, with _log_cache_hit
Get(data_type, ticker, kwargs) ==
    LET key == _generate_key(data_type, ticker, kwargs)
    IN  /\ ops < MaxOps
        /\ ops' = ops + 1
        /\ IF get_result(data_type, ticker, kwargs) = MISS
           THEN /\ last' = Call("get", data_type, ticker, kwargs, MISS, MISS, FALSE)
                /\ UNCHANGED <<cache, api_costs, hits>>
           ELSE /\ cache' = {IF r.key = key THEN HitRow(r) ELSE r : r \in cache}
                /\ hits' = [hits EXCEPT ![key] = @ + 1]
                /\ api_costs' = Append(api_costs,
                        [timestamp |-> UtcNow, module |-> data_type,
                         api_name |-> IF Truthy(ticker) THEN ticker ELSE "N/A",
                         cost |-> _estimate_cost(data_type), cache_hit |-> 1])
                /\ last' = Call("get", data_type, ticker, kwargs, MISS,
                                get_result(data_type, ticker, kwargs), FALSE)
        /\ UNCHANGED <<now, tz, ticks, sentinelVars, keyed, agentVars>>

\* A writer other than set (another program, a damaged file) replaces the data
\* column of a row by a text that is not JSON.
CorruptPayload(key) ==
    /\ HasRow(key) /\ RowOf(key).data # CorruptText
    /\ cache' = {IF r.key = key THEN [r EXCEPT !.data = CorruptText] ELSE r : r \in cache}
    /\ last' = NoCall
    /\ UNCHANGED <<now, tz, api_costs, ops, ticks, hits, sentinelVars, keyed, agentVars>>

\* The dict an analyzer builds from a successful answer of the external model,
\* {'success': True, 'suppliers': [...], ...}, with n entities in its list.
ListResult(n) == [ktype |-> "str", key |-> "success", val |-> n]

\* identify_suppliers_with_web_search and identify_customers_with_web_search,
\* with use_cache on: the list is looked up in the cache under the analyzer's
\* data type ('supplier_list', 'customer_list'); on a miss the external model
\* is called, and its answer, if it could be used (answer = <<n>>), is stored
\* at a cost of 0.05 and returned; <<>> is an answer that could not be used.
\* flag records whether the external model was called, ret what was returned.
IdentifyWithWebSearch(data_type, ticker, answer, us) ==
    LET key == _generate_key(data_type, ticker, <<>>)
        cached == get_result(data_type, ticker, <<>>)
    IN  /\ ops < MaxOps
        /\ ops' = ops + 1
        /\ IF cached # MISS
           THEN /\ cache' = {IF r.key = key THEN HitRow(r) ELSE r : r \in cache}
                /\ hits' = [hits EXCEPT ![key] = @ + 1]
                /\ api_costs' = Append(api_costs,
                        [timestamp |-> UtcNow, module |-> data_type,
                         api_name |-> IF Truthy(ticker) THEN ticker ELSE "N/A",
                         cost |-> _estimate_cost(data_type), cache_hit |-> 1])
                /\ last' = Call("identify", data_type, ticker, <<>>, MISS, cached, FALSE)
           ELSE IF answer # <<>>
           THEN /\ cache' = {r \in cache : r.key # key}
                             \cup {NewRow(data_type, ListResult(answer[1]), ticker, 50,
                                          <<>>, us)}
                /\ hits' = HitsAfterSet(key)
                /\ last' = Call("identify", data_type, ticker, <<>>,
                                ListResult(answer[1]), ListResult(answer[1]), TRUE)
                /\ UNCHANGED api_costs
           ELSE /\ last' = Call("identify", data_type, ticker, <<>>, MISS, MISS, TRUE)
                /\ UNCHANGED <<cache, api_costs, hits>>
        /\ UNCHANGED <<now, tz, ticks, sentinelVars, keyed, agentVars>>

\* DataCacheManager.should_refresh, called by a client
ShouldRefresh(data_type, ticker) ==
    /\ ops < MaxOps
    /\ ops' = ops + 1
    /\ last' = Call("should_refresh", data_type, ticker, <<>>, MISS, MISS,
                    should_refresh(data_type, ticker))
    /\ UNCHANGED <<now, tz, cache, api_costs, ticks, hits, sentinelVars, keyed, agentVars>>

\* DataCacheManager.force_refresh
ForceRefresh(data_type, ticker) ==
    /\ ops < MaxOps
    /\ ops' = ops + 1
    /\ cache' = cache \ ForceRefreshDeletes(data_type, ticker)
    /\ hits' = HitsOfRows(cache')
    /\ last' = Call("force_refresh", data_type, ticker, <<>>, MISS, MISS, FALSE)
    /\ UNCHANGED <<now, tz, api_costs, ticks, sentinelVars, keyed, agentVars>>

\* DataCacheManager.clear_stale; it returns the number of rows it deleted
ClearStale ==
    /\ ops < MaxOps
    /\ ops' = ops + 1
    /\ cache' = cache \ ClearStaleDeletes
    /\ hits' = HitsOfRows(cache')
    /\ last' = Call("clear_stale", None, None, <<>>, MISS,
                    Cardinality(ClearStaleDeletes), FALSE)
    /\ UNCHANGED <<now, tz, api_costs, ticks, sentinelVars, keyed, agentVars>>

\* DataCacheManager.get_stats
GetStats ==
    /\ ops < MaxOps
    /\ ops' = ops + 1
    /\ last' = Call("get_stats", None, None, <<>>, MISS, get_stats, FALSE)
    /\ UNCHANGED <<now, tz, cache, api_costs, ticks, hits, sentinelVars, keyed, agentVars>>

\* Time passes.
Tick(d) ==
    /\ ticks < MaxTicks
    /\ ticks' = ticks + 1
    /\ now' = now + d
    /\ last' = NoCall
    /\ asked' = NoAsk
    /\ UNCHANGED <<tz, cache, api_costs, ops, hits, analysis_history, change_log,
                   learned_insights, relationships, learned, keyed, agentVars>>

\* SentinelEngine.learn_from_analysis, called gap seconds after the last call.
\* The statements are those the call executes up to its commit or up to the
\* statement that raises.
Learn(ticker, results, gap) ==
    LET raised == LearnRaises(results, learned.open_tx)
        locked == learned.open_tx
        in_insights == ~locked /\ ExtractInsightsRaises(results)
        suppliers == IF results.suppliers.in THEN results.suppliers.entities ELSE <<>>
        customers == IF results.customers.in THEN results.customers.entities ELSE <<>>
    IN  /\ Len(analysis_history) + learned.failures < MaxLearn
        /\ now' = now + gap
        /\ \E previous \in IF PreviousCandidates(analysis_history, ticker) = {}
                            THEN {<<>>}
                            ELSE {<<i>> : i \in PreviousCandidates(analysis_history, ticker)} :
              LET changes == _detect_changes(analysis_history, ticker, results, previous, now')
              IN  /\ change_log' =
                        Committed(change_log,
                                  IF locked THEN change_log ELSE change_log \o changes,
                                  raised)
                  /\ learned' = [ticker |-> ticker, results |-> results,
                                 previous |-> IF locked THEN <<>> ELSE previous,
                                 changes |-> IF locked THEN <<>> ELSE changes,
                                 calls |-> learned.calls + (IF raised = "" THEN 1 ELSE 0),
                                 failures |-> learned.failures
                                                + (IF raised = "" THEN 0 ELSE 1),
                                 raised |-> raised,
                                 open_tx |-> raised # ""]
        /\ asked' = NoAsk
        /\ analysis_history' =
              Committed(analysis_history,
                        IF locked THEN analysis_history
                        ELSE Append(analysis_history, HistoryRow(ticker, results, now')),
                        raised)
        /\ learned_insights' =
              Committed(learned_insights,
                        IF locked \/ in_insights THEN learned_insights
                        ELSE learned_insights \o _extract_insights(ticker, results, now'),
                        raised)
        /\ relationships' =
              Committed(relationships,
                        IF locked \/ in_insights THEN relationships
                        ELSE IF UpdateRelationshipsRaises(suppliers)
                        THEN _update_relationships(relationships, ticker, suppliers,
                                                   "supplier", now')
                        ELSE _update_relationships(
                                 _update_relationships(relationships, ticker, suppliers,
                                                       "supplier", now'),
                                 ticker, customers, "customer", now'),
                        raised)
        /\ UNCHANGED <<tz, cacheVars, keyed, agentVars>>

\* The connection a failed learn_from_analysis left open is disposed of (its
\* last reference goes, or the garbage collector finds it): the transaction is
\* rolled back and the write lock released.
DisposeConnection ==
    /\ learned.open_tx
    /\ learned' = [learned EXCEPT !.open_tx = FALSE]
    /\ UNCHANGED <<now, tz, cacheVars, analysis_history, change_log,
                   learned_insights, relationships, asked, keyed, agentVars>>

\* SentinelEngine.get_historical_trend
GetHistoricalTrend(ticker, days) ==
    /\ \E first_row \in FirstCandidates(analysis_history,
                                     TrendRows(analysis_history, ticker, days)) \cup {0},
          last_row \in LastCandidates(analysis_history,
                                   TrendRows(analysis_history, ticker, days)) \cup {0} :
          /\ IF Cardinality(TrendRows(analysis_history, ticker, days)) < 2
             THEN first_row = 0 /\ last_row = 0
             ELSE first_row # 0 /\ last_row # 0 /\ first_row # last_row
          /\ asked' = Ask("get_historical_trend", ticker, days,
                          get_historical_trend(analysis_history, ticker, days, first_row, last_row))
    /\ UNCHANGED <<now, tz, cacheVars, analysis_history, change_log, learned_insights,
                   relationships, learned, keyed, agentVars>>

\* SentinelEngine.recommend_refresh
RecommendRefresh(ticker) ==
    /\ asked' = Ask("recommend_refresh", ticker, 0,
                    recommend_refresh(analysis_history, ticker))
    /\ UNCHANGED <<now, tz, cacheVars, analysis_history, change_log, learned_insights,
                   relationships, learned, keyed, agentVars>>

\* The results the app hands to learn_from_analysis after a run: one entry per
\* module, that of a module that failed or raised being {'success': False,
\* 'error': ...}, and no 'combined_score'.
AppResults(ok) ==
    LET entry(module) == IF ok[module] THEN Module(<<500>>) ELSE FailedModule
    IN  [ combined_score |-> Absent,
          monetary  |-> entry("monetary"),
          company   |-> entry("company"),
          suppliers |-> entry("suppliers"),
          customers |-> entry("customers"),
          macro     |-> entry("macro") ]

\* The RUN ANALYSIS block of the app, with the enterprise features on: the
\* modules run, each succeeds or fails, and the results are learnt.
RunAnalysis(ticker, ok, gap) == Learn(ticker, AppResults(ok), gap)

SetStep(K, T, KW, US) ==
    \E k \in K, p \in Payloads, t \in T, c \in Costs, kw \in KW, us \in US :
        Set(k, p, t, c, kw, us)
GetStep(K, T, KW) == \E k \in K, t \in T, kw \in KW : Get(k, t, kw)
ShouldRefreshStep(K, T) == \E k \in K, t \in T : ShouldRefresh(k, t)
ForceRefreshStep(K, T) == \E k \in K \cup {None}, t \in T : ForceRefresh(k, t)
TickStep == \E d \in TickSteps : Tick(d)

\* The cache under plain keys: every call names a data type and a ticker (or none).
Next ==
    \/ SetStep(Kinds, PlainTickers, NoKwargs, WithMicros)
    \/ GetStep(Kinds, PlainTickers, NoKwargs)
    \/ ShouldRefreshStep(Kinds, PlainTickers)
    \/ TickStep

Spec == Init /\ [][Next]_vars

\* The cache with keyword arguments and tickers in either case.
KeyKinds == {"fed_rate", "supplier_list"}

NextKeys ==
    \/ SetStep(KeyKinds, CaseTickers, KwargChoices, WithMicros)
    \/ GetStep(KeyKinds, CaseTickers, KwargChoices)
    \/ ForceRefreshStep(KeyKinds, CaseTickers)
    \/ TickStep

SpecKeys == Init /\ [][NextKeys]_vars

\* The analyzers' lists of suppliers and customers, looked up and fetched for
\* the ticker AAPL, and the clock.
ListKinds == {"supplier_list", "customer_list"}
ModelAnswers == {<<>>, <<3>>, <<5>>}
ListWaits == {HOUR, 23 * HOUR, 24 * HOUR, 6 * DAY, 7 * DAY}

IdentifyStep ==
    \E k \in ListKinds, a \in ModelAnswers, us \in WithMicros :
        IdentifyWithWebSearch(k, "AAPL", a, us)

NextLists ==
    \/ IdentifyStep
    \/ \E d \in ListWaits : Tick(d)

SpecLists == Init /\ [][NextLists]_vars

\* The sentinel: analyses of two tickers, recorded in the same second or a
\* second apart.
SentinelTickers == {"ACME", "TSLA"}
CombinedScores == {Absent, <<500>>, <<549>>, <<700>>}
MonetaryScores == {<<450>>, <<500>>}
LearnGaps == {0, 1}

ResultsOf(combined, monetary) ==
    [NoResults EXCEPT !.combined_score = combined, !.monetary = Module(monetary)]

LearnStep ==
    \E t \in SentinelTickers, c \in CombinedScores, m \in MonetaryScores, g \in LearnGaps :
        Learn(t, ResultsOf(c, m), g)

NextSentinel == LearnStep

\* learn_from_analysis reads no local time: the zone is left at UTC.
InitSentinel == Init /\ tz = 0

SpecSentinel == InitSentinel /\ [][NextSentinel]_vars

\* Key generation: two calls of _generate_key, on data types and tickers that
\* hold the characters the key string is built with, and on keyword arguments
\* passed in either order and with int and str values.
KeyKindInputs == {"fed_rate", "fed_rate|A"}
KeyTickerInputs == {None, "a", "A", "A:1"}
OneStr == [t |-> "str", s |-> "1"]
KeyKwargInputs ==
    { <<>>,
      <<[k |-> "A", v |-> One]>>,
      <<[k |-> "A", v |-> OneStr]>>,
      <<[k |-> "p", v |-> One], [k |-> "q", v |-> One]>>,
      <<[k |-> "q", v |-> One], [k |-> "p", v |-> One]>> }
KeyInputs ==
    {KeyArgs(k, t, kw) : k \in KeyKindInputs, t \in KeyTickerInputs, kw \in KeyKwargInputs}

GenerateKeys(a, b) ==
    /\ keyed = NoKeys
    /\ keyed' = [a |-> a, b |-> b, ka |-> KeyOf(a), kb |-> KeyOf(b)]
    /\ UNCHANGED <<now, tz, cacheVars, sentinelVars, agentVars>>

NextKey == \E a \in KeyInputs, b \in KeyInputs : GenerateKeys(a, b)

InitKey == Init /\ tz = 0

SpecKey == InitKey /\ [][NextKey]_vars

\* The cache with its sweep and its statistics: rows that are stale the moment
\* they are written (TTL 0) and rows of a 24 h default TTL, written with and
\* without microseconds.
StatsKinds == {"stock_price_current", "supplier_list"}
StatsTickers == {None}

NextStats ==
    \/ SetStep(StatsKinds, StatsTickers, NoKwargs, AnyMicros)
    \/ GetStep(StatsKinds, StatsTickers, NoKwargs)
    \/ ForceRefreshStep(StatsKinds, StatsTickers)
    \/ ClearStale
    \/ GetStats
    \/ TickStep

SpecStats == Init /\ [][NextStats]_vars

\* The cache with rows whose payload another writer has damaged.
CorruptStep == \E r \in cache : CorruptPayload(r.key)

NextCorrupt ==
    \/ SetStep(StatsKinds, PlainTickers, NoKwargs, WithMicros)
    \/ GetStep(StatsKinds, PlainTickers, NoKwargs)
    \/ CorruptStep
    \/ TickStep

SpecCorrupt == Init /\ [][NextCorrupt]_vars

\* The ledger and its readers: analyses recorded a second apart, directly and
\* by runs of the app, with waits around the windows of the readers.
LedgerTickers == {"ACME", "TSLA"}
LedgerScores == {<<500>>, <<600>>, <<601>>}
LedgerGaps == {1}
TrendDays == {1}
WaitSteps == {23 * HOUR, 24 * HOUR, 47 * HOUR, 8 * DAY, 91 * DAY}
\* A run in which every module failed, and one in which every module succeeded.
RunOutcomes ==
    { [m \in {"monetary", "company", "suppliers", "customers", "macro"} |-> b] :
      b \in BOOLEAN }

LedgerLearnStep ==
    \E t \in LedgerTickers, c \in LedgerScores, g \in LedgerGaps :
        Learn(t, [NoResults EXCEPT !.combined_score = c], g)
RunStep ==
    \E t \in LedgerTickers, ok \in RunOutcomes, g \in LedgerGaps : RunAnalysis(t, ok, g)
TrendStep == \E t \in LedgerTickers, d \in TrendDays : GetHistoricalTrend(t, d)
RecommendStep == \E t \in LedgerTickers : RecommendRefresh(t)
WaitStep == \E d \in WaitSteps : Tick(d)

NextLedger ==
    \/ LedgerLearnStep
    \/ RunStep
    \/ TrendStep
    \/ RecommendStep
    \/ WaitStep

SpecLedger == Init /\ [][NextLedger]_vars

\* The stores of the sentinel: analyses whose supplier and customer lists name
\* an entity once, twice, or without a name or a score, and the readers called
\* between them.
RelationTickers == {"ACME", "TSLA"}
SupplierLists ==
    { <<>>,
      <<Entity(<<"TSMC">>, <<0 - 150>>)>>,
      <<Entity(<<"TSMC">>, <<50>>)>>,
      <<Entity(<<"TSMC">>, <<0 - 150>>), Entity(<<"TSMC">>, <<50>>)>>,
      <<Entity(Absent, <<200>>), Entity(<<"ASML">>, Absent)>> }
CustomerLists == { <<>>, <<Entity(<<"TSMC">>, <<300>>)>> }

ResultsWith(suppliers, customers) ==
    [NoResults EXCEPT
        !.suppliers = [Module(<<700>>) EXCEPT !.entities = suppliers],
        !.customers = IF customers = <<>> THEN NoModule
                      ELSE [Module(<<700>>) EXCEPT !.entities = customers]]

RelationsLearnStep ==
    \E t \in RelationTickers, sup \in SupplierLists, cus \in CustomerLists :
        Learn(t, ResultsWith(sup, cus), 1)

NextRelations ==
    \/ RelationsLearnStep
    \/ TrendStep
    \/ RecommendStep

SpecRelations == Init /\ [][NextRelations]_vars

\* The sentinel fed results that make learn_from_analysis raise part-way: a
\* monetary score of None (in _extract_insights, after the history row and the
\* changes were written) and an entity score of None (in _update_relationships,
\* after the insights and the row of the entity before it were written).
GoodResults ==
    [ResultsWith(<<Entity(<<"TSMC">>, <<50>>)>>, <<>>) EXCEPT
        !.combined_score = <<700>>, !.monetary = Module(<<450>>)]
NoneMonetaryResults ==
    [GoodResults EXCEPT !.combined_score = <<500>>, !.monetary = NoneScoreModule]
NoneEntityResults ==
    [ResultsWith(<<Entity(<<"ASML">>, <<0 - 150>>), NoneScoreEntity(<<"TSMC">>)>>,
                 <<Entity(<<"TSMC">>, <<300>>)>>) EXCEPT
        !.combined_score = <<500>>, !.monetary = Module(<<450>>)]
AtomicResults == {GoodResults, NoneMonetaryResults, NoneEntityResults}

AtomicLearnStep == \E t \in RelationTickers, r \in AtomicResults : Learn(t, r, 1)

NextAtomic ==
    \/ AtomicLearnStep
    \/ DisposeConnection

SpecAtomic == InitSentinel /\ [][NextAtomic]_vars

(************************** the agent's operations *************************)
\* AgentOrchestrator.schedule_action; cap bounds the rows of the table.
ScheduleAction(action_type, ticker, priority, scheduled_for, us, cap) ==
    /\ Len(action_queue) < cap
    /\ action_queue' =
          Append(action_queue,
                 NewAction(Len(action_queue) + 1, action_type, ticker, priority,
                           scheduled_for, us))
    /\ UNCHANGED <<now, tz, cacheVars, sentinelVars, keyed, callers, scheduler>>

\* execute_pending_actions, up to its loop: the SELECT on a connection of its
\* own, which it closes (lines 265-281).
BeginExecute(c) ==
    /\ callers[c].pc = "idle"
    /\ callers' = [callers EXCEPT ![c] =
                      [pc |-> "loop", batch |-> SelectPending(action_queue),
                       due |-> {i \in 1..Len(action_queue) : IsDue(action_queue[i])}]]
    /\ UNCHANGED <<now, tz, cacheVars, sentinelVars, keyed, action_queue, scheduler>>

\* One round of the loop of execute_pending_actions (lines 284-292):
\* _execute_action on the next row of the batch, whatever its status is by now,
\* then _update_action_status, which marks the row completed and stores the
\* result and datetime('now').  Refreshing data empties the cache of the ticker.
ExecuteNext(c, ok) ==
    LET id == Head(callers[c].batch)
        row == action_queue[id]
    IN  /\ callers[c].pc = "loop" /\ callers[c].batch # <<>>
        /\ action_queue' =
              [action_queue EXCEPT ![id] =
                  [row EXCEPT !.runs = @ + 1,
                              !.status = "completed",
                              !.result = _execute_action(row.action_type, ok),
                              !.completed_at = <<UtcNow>>]]
        /\ callers' = [callers EXCEPT ![c].batch = Tail(@)]
        /\ IF row.action_type = "refresh_data"
           THEN /\ cache' = cache \ ForceRefreshDeletes(None, row.ticker)
                /\ hits' = HitsOfRows(cache')
           ELSE UNCHANGED <<cache, hits>>
        /\ UNCHANGED <<now, tz, api_costs, last, ops, ticks, sentinelVars, keyed, scheduler>>

\* execute_pending_actions returns once its loop is through the batch.
EndExecute(c) ==
    /\ callers[c].pc = "loop" /\ callers[c].batch = <<>>
    /\ callers' = [callers EXCEPT ![c] = IdleCaller]
    /\ UNCHANGED <<now, tz, cacheVars, sentinelVars, keyed, action_queue, scheduler>>

\* AutonomousScheduler.start: nothing if running; else the flag is set, three
\* jobs are registered with the schedule module, a monitoring cycle is run and
\* a loop thread is created and started.
Start ==
    /\ scheduler.starts < MaxStarts
    /\ scheduler' =
          IF scheduler.running
          THEN [scheduler EXCEPT !.starts = @ + 1]
          ELSE [scheduler EXCEPT !.starts = @ + 1,
                                 !.running = TRUE,
                                 !.jobs = @ + 3,
                                 !.cycles = @ + 1,
                                 !.threads = Append(@, [pc |-> "test", runs |-> 0]),
                                 !.thread = Len(scheduler.threads) + 1]
    /\ UNCHANGED <<now, tz, cacheVars, sentinelVars, keyed, action_queue, callers>>

\* AutonomousScheduler.stop: the flag is cleared; the join of self.thread, if
\* there is one, waits for 5 seconds at most and changes nothing.
Stop ==
    /\ scheduler' = [scheduler EXCEPT !.running = FALSE]
    /\ UNCHANGED <<now, tz, cacheVars, sentinelVars, keyed, action_queue, callers>>

\* _run_scheduler of loop thread t: the test of the while loop
ThreadTest(t) ==
    /\ t \in 1..Len(scheduler.threads)
    /\ scheduler.threads[t].pc = "test"
    /\ scheduler' = [scheduler EXCEPT !.threads[t].pc =
                        IF LoopContinues(scheduler.running) THEN "run_pending" ELSE "done"]
    /\ UNCHANGED <<now, tz, cacheVars, sentinelVars, keyed, action_queue, callers>>

\* _run_scheduler of loop thread t: schedule.run_pending(), which runs the jobs
\* that are due, if any (due)
ThreadRunPending(t, due) ==
    /\ t \in 1..Len(scheduler.threads)
    /\ scheduler.threads[t].pc = "run_pending"
    /\ due => (scheduler.jobs > 0 /\ scheduler.threads[t].runs < MaxRuns)
    /\ scheduler' = [scheduler EXCEPT !.threads[t] =
                        [pc |-> "sleep", runs |-> @.runs + (IF due THEN 1 ELSE 0)]]
    /\ UNCHANGED <<now, tz, cacheVars, sentinelVars, keyed, action_queue, callers>>

\* _run_scheduler of loop thread t: time.sleep(60) returns
ThreadWake(t) ==
    /\ t \in 1..Len(scheduler.threads)
    /\ scheduler.threads[t].pc = "sleep"
    /\ scheduler' = [scheduler EXCEPT !.threads[t].pc = "test"]
    /\ UNCHANGED <<now, tz, cacheVars, sentinelVars, keyed, action_queue, callers>>

ThreadStep(t) == ThreadTest(t) \/ (\E due \in BOOLEAN : ThreadRunPending(t, due)) \/ ThreadWake(t)

\* The action queue of one caller: actions of a kind that succeeds and of a
\* kind _execute_action does not know, for AAPL and of priority 3 (MEDIUM),
\* scheduled for now or for an hour from now, and the clock.
QueueTypes == {"refresh_data", "learn_pattern"}
QueueTimes == {"immediate", "1h"}
QueueWaits == {60, HOUR}

ScheduleStep(cap) ==
    \E a \in QueueTypes, w \in QueueTimes, us \in WithMicros :
        ScheduleAction(a, "AAPL", 3, w, us, cap)
ExecuteStep(C) ==
    \E c \in C : BeginExecute(c) \/ (\E ok \in BOOLEAN : ExecuteNext(c, ok)) \/ EndExecute(c)
QueueWaitStep == \E d \in QueueWaits : Tick(d)

NextQueue ==
    \/ ScheduleStep(MaxActions)
    \/ ExecuteStep({1})
    \/ QueueWaitStep

SpecQueue == Init /\ [][NextQueue]_vars

\* The action queue of two callers of execute_pending_actions at once
NextRace ==
    \/ ScheduleStep(MaxActions)
    \/ ExecuteStep(Callers)
    \/ QueueWaitStep

SpecRace == Init /\ [][NextRace]_vars

\* A backlog: actions of one kind scheduled for now, more of them than one
\* SELECT returns, and one caller.
BacklogStep ==
    \E us \in WithMicros :
        ScheduleAction("analyze_ticker", "AAPL", 3, "immediate", us, MaxBacklog)

NextBacklog ==
    \/ BacklogStep
    \/ ExecuteStep({1})
    \/ QueueWaitStep

SpecBacklog == InitSentinel /\ [][NextBacklog]_vars

\* The scheduler: start and stop called in any order, and the loop threads.
NextScheduler ==
    \/ Start
    \/ Stop
    \/ \E t \in 1..MaxStarts : ThreadStep(t)

SpecScheduler == Init /\ [][NextScheduler]_vars

\* The same, with every loop thread getting to run: a thread that can take a
\* step of _run_scheduler eventually takes it (its job runs and its sleep end).
SpecSchedulerFair ==
    Init /\ [][NextScheduler]_vars /\ \A t \in 1..MaxStarts : WF_vars(ThreadStep(t))

(************************** claims *****************************************)
\* The calls whose step is the one just taken: every call overwrites last, and
\* a clock advance clears it.
IsCall(op) == last.op = op

\* C1: for the data types whose TTL is 0 (stock_price_current, breaking_news,
\* earnings_day) get returns MISS in every reachable state, whatever ticker and
\* keyword arguments it is called with, also right after a set of the same
\* data type and ticker; and every get of such a data type that was made
\* returned MISS.
ZeroTtlKinds == {"stock_price_current", "breaking_news", "earnings_day"}

C1_TtlZeroAlwaysMisses ==
    /\ \A k \in ZeroTtlKinds, t \in CaseTickers, kw \in KwargChoices :
           get_result(k, t, kw) = MISS
    /\ (IsCall("get") /\ last.data_type \in ZeroTtlKinds) => last.ret = MISS

\* C1's case: a get of a TTL-0 data type, made while the row a set of the same
\* data type and ticker wrote in the same second is in the table.
C1_Witness ==
    /\ IsCall("get") /\ last.data_type \in ZeroTtlKinds /\ last.ret = MISS
    /\ HasRow(_generate_key(last.data_type, last.ticker, last.kwargs))
    /\ RowOf(_generate_key(last.data_type, last.ticker, last.kwargs)).created_at = now

\* A step that is get(kind, ticker) right after set(kind, payload, ticker), for
\* a data type with a TTL above 0.
SetThenGet ==
    /\ IsCall("set") /\ last'.op = "get" /\ ops' = ops + 1
    /\ last'.data_type = last.data_type /\ last'.ticker = last.ticker
    /\ last'.kwargs = last.kwargs
    /\ max_age_hours(last.data_type) > 0

\* C2 as claimed: set(kind, payload, subject) followed at once by
\* get(kind, subject), TTL > 0, returns a payload equal to the one stored, for
\* every payload.
C2_RoundTripAnyPayload == [][SetThenGet => last'.ret = last.data]_vars

\* C2 as amended: the get returns the payload as JSON reads it back, which is
\* the payload itself whenever the keys of the dict are strings.
C2_RoundTripJson ==
    [][SetThenGet =>
         /\ last'.ret = json_loads(json_dumps(last.data))
         /\ last.data.ktype = "str" => last'.ret = last.data]_vars

\* C2's case: a get that returned the payload of a row a set wrote in the same
\* second and that no get had read before.
C2_Witness ==
    /\ IsCall("get") /\ last.ret # MISS /\ last.ret.key = "rev"
    /\ \E r \in cache : /\ r.key = _generate_key(last.data_type, last.ticker, last.kwargs)
                          /\ r.created_at = now /\ r.access_count = 1

\* C3: an entry written at t0 with a TTL T > 0 is returned by get(kind, subject)
\* at every time before t0 + T and is a MISS at every time from t0 + T on, as
\* long as its row is in the table.
PlainRows == {r \in cache : r.key = _generate_key(r.data_type, r.ticker, <<>>)}

RowsOf(ticker) == {i \in 1..Len(analysis_history) : analysis_history[i].ticker = ticker}
EarlierRowsOf(ticker) == RowsOf(ticker) \ {Len(analysis_history)}
MaxOf(S) == CHOOSE i \in S : \A j \in S : j <= i
Learnt == learned.ticker # None

\* C4: when learn_from_analysis records an analysis of a ticker that has a
\* ledger record already, change detection compares the new result with the
\* record appended immediately before it for that ticker; so combined scores
\* 7.0 then 5.0 give exactly one change event, on combined_score, of magnitude
\* 2.0 and significance HIGH.
C4_ComparesWithImmediatePredecessor ==
    (Learnt /\ EarlierRowsOf(learned.ticker) # {}) =>
        LET prior == analysis_history[MaxOf(EarlierRowsOf(learned.ticker))]
        IN  /\ learned.previous = <<MaxOf(EarlierRowsOf(learned.ticker))>>
            /\ (prior.scores.combined_score = <<700>>
                   /\ learned.results.combined_score = <<500>>) =>
                  \E i \in 1..Len(learned.changes) :
                      /\ learned.changes[i].field = "combined_score"
                      /\ learned.changes[i].magnitude = 200
                      /\ learned.changes[i].significance = "HIGH"
                      /\ \A j \in 1..Len(learned.changes) :
                             learned.changes[j].field = "combined_score" => j = i

\* C5: the first analysis ever recorded for a ticker produces no change event:
\* a step taken while the ledger holds no record of a ticker leaves the
\* change_log without any row of that ticker, whatever the ledger holds for
\* other tickers.
ChangesOf(log, ticker) == SelectSeq(log, LAMBDA c : c.ticker = ticker)

C5_NoChangeOnFirstAnalysis ==
    [][\A t \in SentinelTickers :
          RowsOf(t) = {} => ChangesOf(change_log', t) = <<>>]_vars

\* C5's case: the first analysis of a ticker was recorded after two analyses
\* of another ticker, and it gave no change event.
C5_Witness ==
    /\ Len(analysis_history) = 3
    /\ analysis_history[1].ticker = "ACME" /\ analysis_history[2].ticker = "ACME"
    /\ analysis_history[3].ticker = "TSLA" /\ learned.ticker = "TSLA"
    /\ analysis_history[1].scores.combined_score = <<700>>
    /\ analysis_history[3].scores.combined_score = <<500>>
    /\ learned.changes = <<>> /\ ChangesOf(change_log, "TSLA") = <<>>

\* C6: for the combined score and each of the five sub-scores the detector
\* emits an event if and only if the field has a value in the prior record
\* (the one appended before the current one for the ticker) and in the current
\* one and |new - old| >= 0.5; the significance is HIGH from 1.5 on and MEDIUM
\* below.  No prior record, or a field missing in either, gives no event.
ClaimedEvents(prior, current) ==
    { [field |-> ScoreFields[n],
       significance |-> IF Abs(current[ScoreFields[n]][1] - prior[ScoreFields[n]][1]) >= 150
                        THEN "HIGH" ELSE "MEDIUM"] :
      n \in {m \in 1..6 : /\ prior[ScoreFields[m]] # Absent
                          /\ current[ScoreFields[m]] # Absent
                          /\ Abs(current[ScoreFields[m]][1] - prior[ScoreFields[m]][1]) >= 50} }

C6_ThresholdsAgainstPriorRecord ==
    Learnt =>
        { [field |-> learned.changes[i].field,
           significance |-> learned.changes[i].significance] :
          i \in 1..Len(learned.changes) }
        = IF EarlierRowsOf(learned.ticker) = {} THEN {}
          ELSE ClaimedEvents(analysis_history[MaxOf(EarlierRowsOf(learned.ticker))].scores,
                             ScoresOf(learned.results))

\* C7: key generation is deterministic, does not depend on the order the
\* keyword arguments are passed in, and gives different keys to any two calls
\* that differ in the data type, in the ticker or in a keyword argument.
\* Tickers that differ only in case are taken as the same subject here.
KwargDict(kwargs) == {kwargs[i] : i \in 1..Len(kwargs)}

SameKeyArgs(a, b) ==
    /\ a.data_type = b.data_type
    /\ Upper(a.ticker) = Upper(b.ticker)
    /\ KwargDict(a.kwargs) = KwargDict(b.kwargs)

C7_KeyIsInjective ==
    keyed # NoKeys => (SameKeyArgs(keyed.a, keyed.b) <=> keyed.ka = keyed.kb)

\* C8: after set(kind, payload, subject, **extra) the table holds exactly one
\* row for the key; its payload is the new one, its created_at the time of the
\* call, its expires_at created_at + TTL(kind), its access_count 0; and the
\* rows of other keys are as they were.
SetKey == _generate_key(last'.data_type, last'.ticker, last'.kwargs)

C8_SetReplacesWholesale ==
    [][(last'.op = "set" /\ ops' = ops + 1) =>
         /\ Cardinality({r \in cache' : r.key = SetKey}) = 1
         /\ \A r \in cache' :
               r.key = SetKey =>
                  /\ r.data = json_dumps(last'.data)
                  /\ r.created_at = now'
                  /\ r.expires_at = r.created_at + max_age_hours(last'.data_type) * HOUR
                  /\ r.access_count = 0
         /\ {r \in cache' : r.key # SetKey} = {r \in cache : r.key # SetKey}]_vars

\* C9: should_refresh(kind, subject) is true exactly when TTL(kind) is 0, or
\* the table holds no entry for (kind, subject), or the time since the entry's
\* created_at is at least TTL(kind), 24 h for a kind the table of rules lacks;
\* and it changes nothing in the store.
ClaimedTtlHours(kind) ==
    IF kind \in DOMAIN FRESHNESS_RULES THEN FRESHNESS_RULES[kind] ELSE 24

C9_ShouldRefreshByAge ==
    /\ \A k \in Kinds, t \in PlainTickers :
          should_refresh(k, t) <=>
             \/ ClaimedTtlHours(k) = 0
             \/ ~HasRow(_generate_key(k, t, <<>>))
             \/ now - RowOf(_generate_key(k, t, <<>>)).created_at
                    >= ClaimedTtlHours(k) * HOUR
    /\ IsCall("should_refresh") =>
          last.flag = (\/ ClaimedTtlHours(last.data_type) = 0
                       \/ ~HasRow(_generate_key(last.data_type, last.ticker, <<>>))
                       \/ now - RowOf(_generate_key(last.data_type, last.ticker, <<>>)).created_at
                              >= ClaimedTtlHours(last.data_type) * HOUR)

\* C10: force_refresh deletes exactly the rows that match its arguments: with a
\* data type only, the rows of that data type; with a ticker only, the rows
\* stored for that ticker; with both, the rows stored for that data type and
\* ticker, those written with keyword arguments too; with neither, none.
\* A row stored under the ticker in another case may go or stay: every row
\* stored under the very ticker goes, and no row of another subject does.
SameSubject(a, b) == Truthy(a) /\ Truthy(b) /\ Upper(a) = Upper(b)

ClaimedDeletes(data_type, ticker, same(_, _)) ==
    IF Truthy(data_type) /\ Truthy(ticker)
    THEN {r \in cache : r.data_type = data_type /\ same(r.ticker, ticker)}
    ELSE IF Truthy(data_type) THEN {r \in cache : r.data_type = data_type}
    ELSE IF Truthy(ticker) THEN {r \in cache : same(r.ticker, ticker)}
    ELSE {}

C10_ForceRefreshDeletesMatching ==
    [][(last'.op = "force_refresh" /\ ops' = ops + 1) =>
         /\ cache' \subseteq cache
         /\ ClaimedDeletes(last'.data_type, last'.ticker, LAMBDA a, b : a = b)
               \subseteq cache \ cache'
         /\ cache \ cache'
               \subseteq ClaimedDeletes(last'.data_type, last'.ticker, SameSubject)]_vars

\* A row is fresh iff now < expires_at, now being the clock as datetime('now')
\* reads it, in whole seconds: an expires_at of the same second with
\* microseconds is still ahead.
ClaimedFresh(r, t) == t < r.expires_at \/ (t = r.expires_at /\ r.expires_us)

\* C11: clear_stale deletes every row that is not fresh (now >= expires_at),
\* returns the number of rows it deleted and leaves every fresh row as it was,
\* so that get_stats right afterwards reports stale_items = 0.
C11_ClearStaleSweepsEveryStaleRow ==
    [][(last'.op = "clear_stale" /\ ops' = ops + 1) =>
         /\ cache' = {r \in cache : ClaimedFresh(r, now)}
         /\ last'.ret = Cardinality(cache \ cache')
         /\ Cardinality(StaleRows(cache')) = 0]_vars

\* C12: in every reachable state get_stats reports total_items = the number of
\* rows, fresh_items = the number of rows with now < expires_at, stale_items =
\* the number of the other rows, so total_items = fresh_items + stale_items;
\* a call of get_stats returns these numbers and changes no stored state.
StatsAreCounts(stats, rows, t) ==
    /\ stats.total_items = Cardinality(rows)
    /\ stats.fresh_items = Cardinality({r \in rows : ClaimedFresh(r, t)})
    /\ stats.stale_items = Cardinality({r \in rows : ~ClaimedFresh(r, t)})
    /\ stats.total_items = stats.fresh_items + stats.stale_items

C12_StatsCountRows ==
    [][/\ StatsAreCounts(get_stats', cache', now')
       /\ (last'.op = "get_stats" /\ ops' = ops + 1) =>
             /\ StatsAreCounts(last'.ret, cache, now)
             /\ UNCHANGED <<cache, api_costs, now>>]_vars

\* C12's case: get_stats was called on a store holding a fresh row and a stale
\* row that expires this very second.
C12_Witness ==
    /\ IsCall("get_stats")
    /\ last.ret.total_items = 2 /\ last.ret.fresh_items = 1 /\ last.ret.stale_items = 1
    /\ \E r \in cache : r.expires_at = now /\ ~r.expires_us

\* C13: for every cache entry access_count is the number of gets that returned
\* the entry's payload since set last wrote the entry: a hit adds exactly one,
\* to that entry only, and a get that returns MISS changes no row.
C13_AccessCountCountsHits ==
    [][/\ \A r \in cache' : r.key \in DOMAIN hits' /\ r.access_count = hits'[r.key]
       /\ (last'.op = "get" /\ ops' = ops + 1) =>
             IF last'.ret = MISS THEN cache' = cache
             ELSE \E r \in cache :
                     /\ r.key = _generate_key(last'.data_type, last'.ticker, last'.kwargs)
                     /\ \E h \in cache' :
                           /\ h.access_count = r.access_count + 1
                           /\ [h EXCEPT !.access_count = r.access_count,
                                        !.accessed_at = r.accessed_at] = r
                           /\ cache' \ {h} = cache \ {r}]_vars

\* C13's case: an entry that two gets have returned since it was written.
C13_Witness ==
    /\ IsCall("get") /\ last.ret # MISS
    /\ \E r \in cache : r.access_count = 2 /\ hits[r.key] = 2

\* C14: an entry's cost_saved is cumulative over hits: every get that returns
\* the entry's payload adds the cost estimate of the data type to the entry's
\* cost_saved, so the cost_saved_total of get_stats grows with every hit.
C14_CostSavedGrowsWithHits ==
    [][(last'.op = "get" /\ ops' = ops + 1 /\ last'.ret # MISS) =>
         /\ \A r \in cache, h \in cache' :
               (r.key = _generate_key(last'.data_type, last'.ticker, last'.kwargs)
                  /\ h.key = r.key) =>
                     h.cost_saved = r.cost_saved + _estimate_cost(last'.data_type)
         /\ get_stats'.cost_saved_total > get_stats.cost_saved_total]_vars

\* C15: the ledger is append-only: every learn_from_analysis call that returns
\* adds exactly one analysis_history row, for its ticker, at the end; and no
\* step of any operation changes or removes a row that is there.
C15_LedgerIsAppendOnly ==
    [][/\ Len(analysis_history') >= Len(analysis_history)
       /\ SubSeq(analysis_history', 1, Len(analysis_history)) = analysis_history
       /\ IF learned'.calls = learned.calls + 1
          THEN /\ Len(analysis_history') = Len(analysis_history) + 1
               /\ analysis_history'[Len(analysis_history')].ticker = learned'.ticker
          ELSE analysis_history' = analysis_history]_vars

\* C15's case: three analyses are in the ledger, the first and the third of one
\* ticker, and a reader was called after the third.
C15_Witness ==
    /\ Len(analysis_history) = 3 /\ learned.calls = 3
    /\ analysis_history[1].ticker = "ACME" /\ analysis_history[2].ticker = "TSLA"
    /\ analysis_history[3].ticker = "ACME"
    /\ asked.op = "get_historical_trend"

\* C16: a failed analysis is never appended to the ledger: the results of a
\* run whose modules all failed (success = False) add no analysis_history row.
AllFailed(results) ==
    \A m \in {results.monetary, results.company, results.suppliers,
              results.customers, results.macro} : m.in /\ ~m.success

C16_FailedRunIsNotAppended ==
    [][Len(analysis_history') > Len(analysis_history) => ~AllFailed(learned'.results)]_vars

\* The rows of a ticker inside the window of the last days days: those younger
\* than the window is long.
InWindow(ticker, days) ==
    {i \in RowsOf(ticker) : now - analysis_history[i].analysis_date < days * DAY}
Earliest(rows) ==
    CHOOSE i \in rows :
        \A j \in rows : analysis_history[j].analysis_date >= analysis_history[i].analysis_date
Latest(rows) ==
    CHOOSE i \in rows :
        \A j \in rows : analysis_history[j].analysis_date <= analysis_history[i].analysis_date
HasTrend(ret) == "trend" \in DOMAIN ret

\* C17: get_historical_trend classifies by the combined scores of the earliest
\* and the latest record inside the window: no record gives no_data, one record
\* insufficient_data, and two or more give improving iff latest - earliest > 1.0,
\* declining iff latest - earliest < -1.0, stable otherwise; records outside the
\* window or of other tickers have no influence.  Windows whose earliest or
\* latest record has no combined score are C18's business and left open here.
C17_TrendOfWindowEnds ==
    asked.op = "get_historical_trend" =>
        LET rows == InWindow(asked.ticker, asked.days)
            first_score == analysis_history[Earliest(rows)].scores.combined_score
            last_score == analysis_history[Latest(rows)].scores.combined_score
        IN  IF rows = {} THEN HasTrend(asked.ret) /\ asked.ret.trend = "no_data"
            ELSE IF Cardinality(rows) = 1
            THEN HasTrend(asked.ret) /\ asked.ret.trend = "insufficient_data"
            ELSE (first_score # Absent /\ last_score # Absent) =>
                    /\ HasTrend(asked.ret)
                    /\ asked.ret.trend =
                          IF last_score[1] - first_score[1] > 100 THEN "improving"
                          ELSE IF last_score[1] - first_score[1] < 0 - 100 THEN "declining"
                          ELSE "stable"

\* C18: in every reachable ledger state, with records appended without a
\* combined score too, get_historical_trend returns a result whose trend is one
\* of improving, declining, stable, insufficient_data, no_data; it never raises.
C18_TrendNeverRaises ==
    asked.op = "get_historical_trend" =>
        /\ HasTrend(asked.ret)
        /\ asked.ret.trend \in {"improving", "declining", "stable",
                                "insufficient_data", "no_data"}

\* Entities of the supplier and customer lists of a results dict
ListOf(results, rel_type) ==
    IF rel_type = "supplier"
    THEN (IF results.suppliers.in THEN results.suppliers.entities ELSE <<>>)
    ELSE (IF results.customers.in THEN results.customers.entities ELSE <<>>)

NamedIn(results, rel_type) ==
    {EntityName(ListOf(results, rel_type)[i]) : i \in 1..Len(ListOf(results, rel_type))}

\* The score an analysis reports for an entity: that of its last mention.
ReportedScore(results, rel_type, name) ==
    LET list == ListOf(results, rel_type)
        at == CHOOSE i \in 1..Len(list) :
                 /\ EntityName(list[i]) = name
                 /\ \A j \in 1..Len(list) : EntityName(list[j]) = name => j <= i
    IN  EntityScore(list[at])

\* C19: the relationship store holds at most one row per (ticker,
\* related_entity, relationship_type); after a learn_from_analysis call the row
\* of every entity the analysis named carries the absolute value of the score
\* it reported, and the rows of the entities it did not name are as they were:
\* so a row carries the importance of the most recent analysis naming it.
C19_RelationshipsUpsert ==
    [][/\ \A r1 \in relationships', r2 \in relationships' :
             (/\ r1.ticker = r2.ticker /\ r1.related_entity = r2.related_entity
              /\ r1.relationship_type = r2.relationship_type) => r1 = r2
       /\ learned'.calls = learned.calls + 1 =>
             LET named(r) == /\ r.ticker = learned'.ticker
                             /\ r.related_entity
                                   \in NamedIn(learned'.results, r.relationship_type)
             IN  /\ \A rel_type \in {"supplier", "customer"} :
                       \A name \in NamedIn(learned'.results, rel_type) :
                          \E r \in relationships' :
                             /\ r.ticker = learned'.ticker /\ r.related_entity = name
                             /\ r.relationship_type = rel_type
                             /\ r.importance_score =
                                   Abs(ReportedScore(learned'.results, rel_type, name))
                 /\ {r \in relationships' : ~named(r)} = {r \in relationships : ~named(r)}
                 /\ \A r \in relationships' : named(r) \/ r \in relationships]_vars

\* C19's case: a second analysis of ACME named the supplier TSMC again, with
\* another score, and its row was overwritten; TSMC is a customer row too, and
\* a row of TSLA from an earlier analysis is as it was.
C19_Witness ==
    /\ learned.calls = 3 /\ learned.ticker = "ACME"
    /\ analysis_history[1].ticker = "ACME" /\ analysis_history[2].ticker = "TSLA"
    /\ learned.results.suppliers.entities = <<Entity(<<"TSMC">>, <<50>>)>>
    /\ Cardinality({r \in relationships : r.ticker = "ACME"}) = 2
    /\ \E r \in relationships :
          /\ r.ticker = "ACME" /\ r.related_entity = "TSMC"
          /\ r.relationship_type = "supplier"
          /\ r.importance_score = 50 /\ r.last_updated = now
    /\ \E r \in relationships :
          /\ r.ticker = "ACME" /\ r.related_entity = "TSMC"
          /\ r.relationship_type = "customer" /\ r.last_updated < now
    /\ \E r \in relationships : r.ticker = "TSLA" /\ r.last_updated < now

\* C20: recommend_refresh depends only on the whole days d since the ticker's
\* latest ledger record: without a record urgent = [all] and the other buckets
\* are empty; else urgent is non-empty iff d > 90, recommended iff d > 7,
\* optional iff d > 1; and the call changes no cache or ledger state.
ClaimedDays(ticker) ==
    (now - analysis_history[Latest(RowsOf(ticker))].analysis_date) \div DAY

C20_RecommendByElapsedDays ==
    [][asked'.op = "recommend_refresh" =>
         /\ UNCHANGED <<now, cache, api_costs, analysis_history, change_log,
                        learned_insights, relationships>>
         /\ IF RowsOf(asked'.ticker) = {}
            THEN /\ Len(asked'.ret.urgent) = 1 /\ asked'.ret.urgent[1] = "all"
                 /\ asked'.ret.recommended = <<>> /\ asked'.ret.optional = <<>>
            ELSE /\ asked'.ret.urgent # <<>> <=> ClaimedDays(asked'.ticker) > 90
                 /\ asked'.ret.recommended # <<>> <=> ClaimedDays(asked'.ticker) > 7
                 /\ asked'.ret.optional # <<>> <=> ClaimedDays(asked'.ticker) > 1]_vars

\* A get of a key whose row passes both freshness tests of get and holds a
\* payload that cannot be decoded.
GetOfCorruptFresh ==
    /\ last'.op = "get" /\ ops' = ops + 1
    /\ ~should_refresh(last'.data_type, last'.ticker)
    /\ \E r \in SelectFresh(_generate_key(last'.data_type, last'.ticker, last'.kwargs)) :
           r.data = CorruptText

\* C21: when the stored payload of an otherwise fresh entry cannot be decoded,
\* get returns MISS without raising and the read is not accounted as a hit:
\* access_count and the cost log stay as they were.
C21_CorruptPayloadIsAMiss ==
    [][GetOfCorruptFresh =>
         /\ last'.ret = MISS
         /\ cache' = cache
         /\ api_costs' = api_costs]_vars

\* C22: for a data type with a TTL above 0, set(kind, payload, subject, **extra)
\* followed at once by get(kind, subject, **extra) with the same extra params
\* returns the stored payload (as JSON reads it back), whether or not an entry
\* exists for (kind, subject) without extra params; and a set writes the row of
\* its own arguments only, so entries that differ only in extra params are
\* stored and expire independently.
C22_RoundTripWithExtraParams ==
    [][/\ (SetThenGet /\ last.kwargs # <<>>) =>
            last'.ret = json_loads(json_dumps(last.data))
       /\ (last'.op = "set" /\ ops' = ops + 1) =>
            \A r \in cache :
                r.key # _generate_key(last'.data_type, last'.ticker, last'.kwargs)
                => r \in cache']_vars

\* The four tables of the sentinel
SentinelTables == <<analysis_history, change_log, learned_insights, relationships>>

\* C23: learn_from_analysis is all-or-nothing.  The tables change only in the
\* step of a call that returned, and then all its writes are there together:
\* its history row, the changes it detected, its insights and a row for every
\* entity it named; a call that raised, at whatever statement, and whatever
\* happens to its connection afterwards, leaves the four tables as they were.
C23_LearnIsAllOrNothing ==
    [][/\ SentinelTables' # SentinelTables => learned'.calls = learned.calls + 1
       /\ learned'.failures = learned.failures + 1 =>
             /\ learned'.raised # "" /\ SentinelTables' = SentinelTables
       /\ learned'.calls = learned.calls + 1 =>
             /\ learned'.raised = ""
             /\ Len(analysis_history') = Len(analysis_history) + 1
             /\ analysis_history'[Len(analysis_history')].ticker = learned'.ticker
             /\ change_log' = change_log \o learned'.changes
             /\ learned_insights' =
                   learned_insights
                       \o _extract_insights(learned'.ticker, learned'.results, now')
             /\ \A rel_type \in {"supplier", "customer"} :
                   \A name \in NamedIn(learned'.results, rel_type) :
                      \E r \in relationships' :
                         /\ r.ticker = learned'.ticker /\ r.related_entity = name
                         /\ r.relationship_type = rel_type
                         /\ r.last_updated = now']_vars

\* C23's case: after two analyses of ACME were learnt, a call for ACME raised
\* in _update_relationships, with a history row, a change, an insight and the
\* row of ASML written on its connection, and none of them is in the tables,
\* also now that its connection has been disposed of.
C23_Witness ==
    /\ learned.raised = "TypeError" /\ learned.results = NoneEntityResults
    /\ learned.ticker = "ACME" /\ ~learned.open_tx
    /\ learned.changes # <<>>
    /\ Len(analysis_history) = 2
    /\ \A i \in 1..2 : analysis_history[i].ticker = "ACME"
    /\ change_log = <<>>
    /\ Len(learned_insights) = 2
    /\ \A r \in relationships : r.related_entity # "ASML"

\* C30: when an analysis names an entity whose relationship row exists (same
\* ticker, related_entity and relationship_type), the row keeps its
\* discovered_date and its still_active flag: only importance_score and
\* last_updated change.
C30_RediscoveryKeepsDiscoveredDate ==
    [][learned'.calls = learned.calls + 1 =>
         \A r \in relationships :
            (/\ r.ticker = learned'.ticker
             /\ r.related_entity \in NamedIn(learned'.results, r.relationship_type))
            => \E r2 \in relationships' :
                  /\ r2.ticker = r.ticker /\ r2.related_entity = r.related_entity
                  /\ r2.relationship_type = r.relationship_type
                  /\ r2.discovered_date = r.discovered_date
                  /\ r2.still_active = r.still_active]_vars

\* What the claim gives as the time a stored list is reused for
ClaimedListDays == 7

\* C29: a list of suppliers (or customers) an analyzer stored for a ticker is
\* reused for 7 days: a call for that ticker made less than 7 days after the
\* list was stored returns the stored list without calling the external
\* model, and a call made 7 days after it or later calls the model again.
C29_ListsAreReusedForSevenDays ==
    [][(last'.op = "identify" /\ ops' = ops + 1) =>
         \A r \in cache :
            r.key = _generate_key(last'.data_type, last'.ticker, <<>>) =>
               IF now - r.created_at < ClaimedListDays * DAY
               THEN ~last'.flag /\ last'.ret = json_loads(r.data)
               ELSE last'.flag]_vars

\* C24: one call of execute_pending_actions executes every pending action that
\* is due: when the call returns, none of the rows that were pending with
\* scheduled_for <= datetime('now') when it made its SELECT is still pending,
\* however many there were.
C24_OneCallExecutesAllDue ==
    [][\A c \in Callers :
          (callers[c].pc = "loop" /\ callers'[c].pc = "idle") =>
             \A id \in callers[c].due : action_queue'[id].status # "pending"]_vars

\* C25: the life of an action, with one caller.  A row enters the table
\* pending and not yet run; its status only changes from pending to completed;
\* _execute_action runs for it only once, while it is pending, and not before
\* the instant it was scheduled for; the run leaves it completed with its
\* result, successful or not, and datetime('now') as completion time; and a
\* SELECT of execute_pending_actions returns pending rows only.
C25_ActionLifecycle ==
    [][/\ Len(action_queue') >= Len(action_queue)
       /\ \A i \in (Len(action_queue) + 1)..Len(action_queue') :
             /\ action_queue'[i].status = "pending"
             /\ action_queue'[i].runs = 0 /\ action_queue'[i].result = ""
       /\ \A i \in 1..Len(action_queue) :
             /\ action_queue'[i].status # action_queue[i].status =>
                   /\ action_queue[i].status = "pending"
                   /\ action_queue'[i].status = "completed"
             /\ action_queue'[i].runs # action_queue[i].runs =>
                   /\ action_queue[i].status = "pending"
                   /\ action_queue'[i].runs = 1
                   /\ now >= action_queue[i].asked_for
                   /\ action_queue'[i].status = "completed"
                   /\ action_queue'[i].result \in {"success", "failure"}
                   /\ action_queue'[i].completed_at = <<now>>
       /\ \A c \in Callers :
             (callers[c].pc = "idle" /\ callers'[c].pc = "loop") =>
                \A k \in 1..Len(callers'[c].batch) :
                   action_queue[callers'[c].batch[k]].status = "pending"]_vars

\* C26: _execute_action runs at most once for every row of the action queue,
\* also with two callers inside execute_pending_actions at the same time.
C26_ExecutedAtMostOnce ==
    \A i \in 1..Len(action_queue) : action_queue[i].runs <= 1

\* The loop threads that have not returned from _run_scheduler
AliveThreads ==
    {t \in 1..Len(scheduler.threads) : scheduler.threads[t].pc # "done"}

\* C27: whatever start and stop calls were made, at most one loop thread is
\* alive; and a start call made while the scheduler is running creates no
\* thread, registers no job and runs no monitoring cycle.
C27_AtMostOneLoopThread ==
    /\ [](Cardinality(AliveThreads) <= 1)
    /\ [][(scheduler'.starts = scheduler.starts + 1 /\ scheduler.running) =>
             /\ scheduler'.threads = scheduler.threads
             /\ scheduler'.jobs = scheduler.jobs
             /\ scheduler'.cycles = scheduler.cycles]_vars

\* stop has been called on a scheduler that was started, and start has not
\* been called since.
Stopped == ~scheduler.running /\ scheduler.threads # <<>>

\* C28: once stop has been called on a running scheduler, and unless start is
\* called again, every loop thread eventually returns from _run_scheduler; and
\* a thread that has seen the flag cleared, and so has returned, runs no job
\* and takes no step any more.
C28_LoopThreadStopsAfterStop ==
    /\ Stopped ~> (scheduler.running \/ AliveThreads = {})
    /\ [][\A t \in 1..Len(scheduler.threads) :
             scheduler.threads[t].pc = "done" =>
                scheduler'.threads[t] = scheduler.threads[t]]_vars

\* C28's case: a scheduler was started, its loop thread ran a job, stop was
\* called and the thread has returned.
C28_Witness ==
    /\ Stopped /\ scheduler.starts = 1 /\ Len(scheduler.threads) = 1
    /\ scheduler.threads[1] = [pc |-> "done", runs |-> 1]

====
